---- MODULE Spec2Model ----
(***************************************************************************)
(* Rule inspector of the WAF rule visualisation tool: the chat popup       *)
(* (RuleChatPopup: relationship resolver, conversation state, completion   *)
(* request) and the raw JSON viewer (RuleJsonPopup: regex search with      *)
(* match navigation).                                                      *)
(*                                                                         *)
(* A text is a sequence of chunks.  A chunk is a string: a single          *)
(* character where the code looks inside the text (trim, regex search), a  *)
(* whole literal where it only concatenates and compares.                  *)
(***************************************************************************)
EXTENDS Integers, Sequences, FiniteSets, TLC

VARIABLES
    \* props of RuleChatPopup
    rule, allRules, edges, isAIPage,
    \* useState of RuleChatPopup
    messages, input, loading, responseStyle, seeAllRules,
    \* completion requests awaiting their reply, and whether an exception left the component
    outstanding, escaped,
    \* output of the relationship resolution of the last render
    resolved,
    \* prop / useState / effects of RuleJsonPopup
    json, searchTerm, currentMatchIndex, pendingScroll, scrolledTo, crashed,
    \* useState of RuleChatPopup read by the scroll animator, the message container and
    \* the animation loops that have a frame requested
    scrollSpeed, userScrolledUp, lastScrollTop, scrollTop, maxScrollTop, responseLength,
    loops, scrollEventPending,
    \* the message handed to renderAiMessage and what it returns
    msgText, rendered,
    \* the handler that ran last (observation only)
    lastOp

vars == << rule, allRules, edges, isAIPage, messages, input, loading, responseStyle,
           seeAllRules, outstanding, escaped, resolved, json, searchTerm,
           currentMatchIndex, pendingScroll, scrolledTo, crashed, scrollSpeed,
           userScrolledUp, lastScrollTop, scrollTop, maxScrollTop, responseLength,
           loops, scrollEventPending, msgText, rendered, lastOp >>

chatProps  == << rule, allRules, edges, isAIPage >>
chatState  == << messages, input, loading, responseStyle, seeAllRules, outstanding, escaped >>
searchVars == << json, searchTerm, currentMatchIndex, pendingScroll, scrolledTo, crashed >>
scrollVars == << scrollSpeed, userScrolledUp, lastScrollTop, scrollTop, maxScrollTop,
                responseLength, loops, scrollEventPending >>
renderVars == << msgText, rendered >>

(***************************************************************************)
(* Bounds of the model                                                     *)
(***************************************************************************)
MaxMessages == 5
MaxRules == 2
MaxEdges == 2
MaxTermLen == 2
MaxPending == 1
MaxLoops == 2
MaxTextLen == 3
MaxRenders == 2

(***************************************************************************)
(* JavaScript values and conversions                                       *)
(***************************************************************************)
TypeError == "TypeError"
SyntaxError == "SyntaxError"

EmptyText == << >>

Op(name, arg) == [name |-> name, arg |-> arg]

Digit(d) == CASE d = 0 -> "0" [] d = 1 -> "1" [] d = 2 -> "2" [] d = 3 -> "3"
              [] d = 4 -> "4" [] d = 5 -> "5" [] d = 6 -> "6" [] d = 7 -> "7"
              [] d = 8 -> "8" [] d = 9 -> "9"

DigitValue(c) == CASE c = "0" -> 0 [] c = "1" -> 1 [] c = "2" -> 2 [] c = "3" -> 3
                   [] c = "4" -> 4 [] c = "5" -> 5 [] c = "6" -> 6 [] c = "7" -> 7
                   [] c = "8" -> 8 [] c = "9" -> 9

\* String(n) for a non-negative integer: its decimal digits
RECURSIVE ToStr(_)
ToStr(n) == IF n < 10 THEN << Digit(n) >> ELSE ToStr(n \div 10) \o << Digit(n % 10) >>

\* parseInt(text, 10) of a non-empty digit text
RECURSIVE ParseInt(_)
ParseInt(t) == IF Len(t) = 1 THEN DigitValue(t[1])
               ELSE 10 * ParseInt(SubSeq(t, 1, Len(t) - 1)) + DigitValue(t[Len(t)])

\* Array.prototype.filter is SelectSeq; the 0-based indices of a list, in order
Indices(s) == [i \in 1..Len(s) |-> i - 1]

SeqIncludes(s, x) == \E i \in 1..Len(s) : s[i] = x

\* Array.prototype.join(', ') over a list of names
RECURSIVE JoinComma(_)
JoinComma(names) ==
    IF names = << >> THEN EmptyText
    ELSE IF Len(names) = 1 THEN << names[1] >>
    ELSE << names[1], ", " >> \o JoinComma(Tail(names))

\* String.prototype.trim on a text of single characters
IsSpace(c) == c \in {" ", "\n", "\r", "\t"}

RECURSIVE TrimStart(_)
TrimStart(t) == IF t # << >> /\ IsSpace(Head(t)) THEN TrimStart(Tail(t)) ELSE t

RECURSIVE TrimEnd(_)
TrimEnd(t) == IF t # << >> /\ IsSpace(t[Len(t)]) THEN TrimEnd(SubSeq(t, 1, Len(t) - 1)) ELSE t

Trim(t) == TrimEnd(TrimStart(t))

(***************************************************************************)
(* Props.  A rule is [kind, id, Name]; kind "null" is an absent rule, an   *)
(* empty id is a rule without identifier.  A list prop is [kind, items]    *)
(* with kind "undefined", "null" or "array".  An edge is [source, target], *)
(* both the decimal text of a position in the rule list.                   *)
(***************************************************************************)
NoRule == [kind |-> "null", id |-> EmptyText, Name |-> ""]
Rule(id, name) == [kind |-> "object", id |-> id, Name |-> name]
Edge(s, t) == [source |-> s, target |-> t]
Array(items) == [kind |-> "array", items |-> items]
Absent(kind) == [kind |-> kind, items |-> << >>]

(***************************************************************************)
(* RelationshipResolver: the body of RuleChatPopup down to childNames      *)
(***************************************************************************)
\* ({ edges = [] }): the default replaces undefined only, null stays null
edgesParam == IF edges.kind = "undefined" THEN Array(<< >>) ELSE edges

\* (allRules || [])
allRulesOrEmpty == IF allRules.kind = "array" THEN allRules.items ELSE << >>

\* String(rule?.id || '')
ruleId == IF rule.kind = "object" /\ rule.id # EmptyText THEN rule.id ELSE EmptyText

\* the edge direction read the other way round
parentIdsOfSources == LET hits == SelectSeq(edgesParam.items, LAMBDA e : e.source = ruleId)
                      IN  [i \in 1..Len(hits) |-> hits[i].source]

parentIds == LET hits == SelectSeq(edgesParam.items, LAMBDA e : e.target = ruleId)
             IN  [i \in 1..Len(hits) |-> hits[i].source]

childIds == LET hits == SelectSeq(edgesParam.items, LAMBDA e : e.source = ruleId)
            IN  [i \in 1..Len(hits) |-> hits[i].target]

\* one rule per identifier, in the order of the identifiers
RulesAtIdOrder(ids) ==
    LET known == SelectSeq(ids, LAMBDA id : SeqIncludes([k \in 1..Len(allRulesOrEmpty) |-> ToStr(k - 1)], id))
    IN  [i \in 1..Len(known) |-> allRulesOrEmpty[ParseInt(known[i]) + 1]]

\* (allRules || []).filter((r, index) => ids.includes(String(index)))
RulesAt(ids) ==
    LET keep == SelectSeq(Indices(allRulesOrEmpty), LAMBDA index : SeqIncludes(ids, ToStr(index)))
    IN  [i \in 1..Len(keep) |-> allRulesOrEmpty[keep[i] + 1]]

parentRules == RulesAt(parentIds)
childRules == RulesAt(childIds)

\* rules.map(r => r.Name).join(', ') || 'None'
NamesOrNone(rules) ==
    LET joined == JoinComma([i \in 1..Len(rules) |-> rules[i].Name])
    IN  IF joined = EmptyText THEN << "None" >> ELSE joined

parentNames == NamesOrNone(parentRules)
childNames == NamesOrNone(childRules)

\* what the render leaves: the two strings, or the TypeError of null.filter
Relationships ==
    IF edgesParam.kind = "null"
    THEN [status |-> TypeError, parentNames |-> EmptyText, childNames |-> EmptyText]
    ELSE [status |-> "ok", parentNames |-> parentNames, childNames |-> childNames]

NotRendered == [status |-> "stale", parentNames |-> EmptyText, childNames |-> EmptyText]

(***************************************************************************)
(* ConversationContextBuilder: what sendMessage builds before the await    *)
(***************************************************************************)
Styles == {"concise", "detailed", "table", "bullet", "human", "json"}

styleInstructions ==
    [st \in Styles |->
        CASE st = "concise"  -> "Summarize each rule briefly."
          [] st = "detailed" -> "Provide a detailed, step-by-step explanation for each rule."
          [] st = "table"    -> "Return your answer as a markdown table, no extra text."
          [] st = "bullet"   -> "Return your answer as a list of bullet points, one per line, no extra text."
          [] st = "human"    -> "Explain the rules in simple, non-technical language."
          [] st = "json"     -> "Return only a JSON object as specified."]

styleInstruction ==
    IF responseStyle \in Styles THEN styleInstructions[responseStyle]
    ELSE styleInstructions["concise"]

currentRuleInfo ==
    IF rule.kind = "object" /\ rule.id # EmptyText
    THEN << "The user is currently focused on rule #" >> \o ToStr(ParseInt(rule.id) + 1)
         \o << ": ", IF rule.Name # "" THEN rule.Name ELSE "Unknown Rule" >>
    ELSE << "The user is asking about their WAF rules in general." >>

dependencyInfo ==
    << "Parent rules: " >> \o parentNames \o << ". Child rules: " >> \o childNames
    \o << ". When asked about dependencies, always use the provided parent and child rule information, not your own analysis." >>

relationshipInstruction ==
    << "\nIf the user asks about the relationship between the current rule and another rule, check if that rule is listed as a parent or child. If it is a child, say 'rule-X is a child of rule-Y.' If it is a parent, say 'rule-X is a parent of rule-Y.' If it is not in either list, say there is no direct relationship." >>

systemPrompt ==
    << "You are an expert in AWS WAF rules. The user will ask questions about their WAF rules. Always answer clearly and concisely, using the rule JSON provided. If the user asks for improvements, suggest best practices. Style: ",
       styleInstruction, "\n" >>
    \o currentRuleInfo \o << "\n" >> \o dependencyInfo \o relationshipInstruction

\* the flag never looked at
contextRulesFocusedOnly == << rule >>

\* seeAllRules && Array.isArray(allRules) ? allRules : [rule]
contextRules == IF seeAllRules /\ allRules.kind = "array" THEN allRules.items ELSE << rule >>

\* JSON.stringify of a list of rules
StringifyRule(r) ==
    IF r.kind = "null" THEN << "null" >>
    ELSE << "{id:" >> \o r.id \o << ",Name:", r.Name, "}" >>

RECURSIVE StringifyItems(_)
StringifyItems(rs) ==
    IF rs = << >> THEN EmptyText
    ELSE IF Len(rs) = 1 THEN StringifyRule(rs[1])
    ELSE StringifyRule(rs[1]) \o << "," >> \o StringifyItems(Tail(rs))

Stringify(rs) == << "[" >> \o StringifyItems(rs) \o << "]" >>

Entry(role, content) == [role |-> role, content |-> content]
Message(sender, text) == [sender |-> sender, text |-> text]

\* m.sender !== 'ai' || m.text !== chatHistory[0].content
ForwardedWithoutGreeting(m) ==
    m.sender # "ai" \/ m.text \notin { << "Hi! Ask me anything about this rule and I will help you understand or improve it." >> }

Forwarded(m) == m.sender # "ai" \/ m.text # systemPrompt

\* m.sender === 'user' ? 'user' : 'assistant'
RoleOf(m) == IF m.sender = "user" THEN "user" ELSE "assistant"

\* the messages array handed to openai.chat.completions.create
chatHistory ==
    LET prior == SelectSeq(messages, Forwarded)
    IN  << Entry("system", systemPrompt),
           Entry("user", << "Rule JSON: " >> \o Stringify(contextRules)) >>
        \o [i \in 1..Len(prior) |-> Entry(RoleOf(prior[i]), prior[i].text)]
        \o << Entry("user", input) >>

(***************************************************************************)
(* Conversation state of RuleChatPopup                                     *)
(***************************************************************************)
GreetingRule == << "Hi! Ask me anything about this rule and I will help you understand or improve it." >>
GreetingGeneral == << "Hi! Ask me anything about your WAF rules and I will help you understand, analyze, or improve them." >>
Apology == << "Sorry, I could not get a response from the AI." >>

\* useState initial value of messages
InitialMessages == << Message("ai", GreetingRule) >>

\* the greeting handleStyleChange installs
ResetGreeting ==
    IF isAIPage THEN GreetingGeneral
    ELSE IF rule.kind = "object" /\ rule.id # EmptyText THEN GreetingRule
    ELSE GreetingGeneral

\* what the user can have typed into the input field
InputTexts == { EmptyText, << " " >>, << "a" >>, << "a", " " >> }

\* how the awaited call can end other than with a text
Failures == {"network_error", "empty_choices"}

\* catch (e): every failure of the try block lands in the catch
CaughtNetworkOnly(kind) == kind = "network_error"

Caught(kind) == TRUE

\* the text of the first candidate: some answer, or the request's own system message echoed
ReplyTexts(req) == { << "This rule blocks the request." >>, req.history[1].content }

RemoveAt(s, i) == SubSeq(s, 1, i - 1) \o SubSeq(s, i + 1, Len(s))

\* onKeyDown: e.key === 'Enter' && !loading && sendMessage(), on a field disabled while loading
EnterAccepted == ~loading

\* Send button: disabled={loading || !input.trim()}
ButtonEnabled == ~(loading \/ Trim(input) = EmptyText)

\* setLoading(true) of sendMessage: the value of loading while the request is awaited
LoadingOnSendForgotten == FALSE

LoadingOnSend == TRUE

\* setLoading(false) left out after the try block
LoadingAfterTryKept == loading

\* setLoading(false) after the try block
LoadingAfterTry == FALSE

\* the input trimmed before it is kept
userMsgTrimmed == Message("user", Trim(input))

\* const userMsg = { sender: 'user', text: input }
userMsg == Message("user", input)

\* sendMessage; thrown: the try block throws before the request leaves
sendMessage(via, thrown) ==
    IF Trim(input) = EmptyText
    THEN /\ UNCHANGED chatState
         /\ lastOp' = Op("send_noop", via)
    ELSE /\ input' = EmptyText
         /\ UNCHANGED << responseStyle, seeAllRules, escaped >>
         /\ IF thrown
            THEN /\ messages' = messages \o << userMsg, Message("ai", Apology) >>
                 /\ loading' = LoadingAfterTry
                 /\ UNCHANGED outstanding
                 /\ lastOp' = Op("send_thrown", via)
            ELSE /\ messages' = Append(messages, userMsg)
                 /\ loading' = LoadingOnSend
                 /\ outstanding' = Append(outstanding, [history |-> chatHistory, text |-> input])
                 /\ lastOp' = Op("send", via)

Rejected(via) ==
    /\ UNCHANGED chatState
    /\ lastOp' = Op("send_rejected", via)

Room == Len(messages) + 2 <= MaxMessages

KeyDownEnter ==
    /\ \E thrown \in BOOLEAN :
          IF EnterAccepted THEN Room /\ sendMessage("Enter", thrown)
          ELSE ~thrown /\ Rejected("Enter")
    /\ UNCHANGED << chatProps, resolved, searchVars, scrollVars, renderVars >>

ClickSend ==
    /\ \E thrown \in BOOLEAN :
          IF ButtonEnabled THEN Room /\ sendMessage("Send", thrown)
          ELSE ~thrown /\ Rejected("Send")
    /\ UNCHANGED << chatProps, resolved, searchVars, scrollVars, renderVars >>

\* the continuation of sendMessage after the await, for the request at position i
CompletionReturns ==
    /\ \E i \in 1..Len(outstanding) : \E aiText \in ReplyTexts(outstanding[i]) :
          /\ messages' = Append(messages, Message("ai", aiText))
          /\ outstanding' = RemoveAt(outstanding, i)
    /\ loading' = LoadingAfterTry
    /\ lastOp' = Op("reply", "text")
    /\ UNCHANGED << input, responseStyle, seeAllRules, escaped, chatProps, resolved, searchVars, scrollVars, renderVars >>

CompletionFails ==
    /\ \E i \in 1..Len(outstanding) : \E kind \in Failures :
          /\ outstanding' = RemoveAt(outstanding, i)
          /\ lastOp' = Op("failure", kind)
          /\ IF Caught(kind)
             THEN /\ messages' = Append(messages, Message("ai", Apology))
                  /\ loading' = LoadingAfterTry
                  /\ UNCHANGED escaped
             ELSE /\ escaped' = TRUE
                  /\ UNCHANGED << messages, loading >>
    /\ UNCHANGED << input, responseStyle, seeAllRules, chatProps, resolved, searchVars, scrollVars, renderVars >>

\* the list handleStyleChange passes to setMessages
StyleResetAppends == Append(messages, Message("ai", ResetGreeting))

StyleResetEmpty == << >>

StyleResetMessages == << Message("ai", ResetGreeting) >>

handleStyleChange ==
    /\ \E value \in Styles :
          /\ responseStyle' = value
          /\ lastOp' = Op("style", value)
    /\ messages' = StyleResetMessages
    /\ input' = EmptyText
    /\ UNCHANGED << loading, seeAllRules, outstanding, escaped, chatProps, resolved, searchVars, scrollVars, renderVars >>

\* onChange of the input field, which is disabled while loading
setInput ==
    /\ ~loading
    /\ \E value \in InputTexts :
          /\ value # input
          /\ input' = value
    /\ lastOp' = Op("input", "typed")
    /\ UNCHANGED << messages, loading, responseStyle, seeAllRules, outstanding, escaped,
                    chatProps, resolved, searchVars, scrollVars, renderVars >>

setSeeAllRules ==
    /\ seeAllRules' = ~seeAllRules
    /\ lastOp' = Op("seeAllRules", "toggled")
    /\ UNCHANGED << messages, input, loading, responseStyle, outstanding, escaped,
                    chatProps, resolved, searchVars, scrollVars, renderVars >>

(***************************************************************************)
(* SearchNavigator: RuleJsonPopup                                          *)
(***************************************************************************)
\* the raw texts the viewer is opened on, as characters
JsonTexts == { EmptyText,
               << "a", "A", "b", "\n", "a", "b" >>,
               << "a", ".", "b" >> }

\* the characters a search term is typed from; "." and "(" are regex syntax
TermChars == {"a", "b", ".", "("}

RECURSIVE TextsUpTo(_, _)
TextsUpTo(chars, n) ==
    IF n = 0 THEN { EmptyText }
    ELSE LET shorter == TextsUpTo(chars, n - 1)
         IN  shorter \cup { Append(t, c) : t \in shorter, c \in chars }

SearchTerms == TextsUpTo(TermChars, MaxTermLen)

\* String.prototype.toLowerCase, per character
Lower(c) == CASE c = "A" -> "a" [] c = "B" -> "b" [] OTHER -> c

LowerText(t) == [i \in 1..Len(t) |-> Lower(t[i])]

\* new RegExp(term, 'gi') throws a SyntaxError on an unterminated group
ValidRegex(term) == \A i \in 1..Len(term) : term[i] # "("

\* one pattern character against one text character, flag i
CharMatches(p, c) == IF p = "." THEN c # "\n" ELSE Lower(p) = Lower(c)

MatchesAt(text, term, pos) ==
    /\ pos + Len(term) - 1 <= Len(text)
    /\ \A k \in 1..Len(term) : CharMatches(term[k], text[pos + k - 1])

\* text.match(regex) with flag g: the start positions of the matches, left to right, not overlapping
RECURSIVE MatchPositions(_, _, _)
MatchPositions(text, term, from) ==
    IF from + Len(term) - 1 > Len(text) THEN << >>
    ELSE IF MatchesAt(text, term, from)
         THEN << from >> \o MatchPositions(text, term, from + Len(term))
         ELSE MatchPositions(text, term, from + 1)

\* (text.match(new RegExp(term, 'gi')) || []).length
MatchCount(text, term) == Len(MatchPositions(text, term, 1))

\* the remainder operator of JavaScript: the sign of the dividend
JsRem(a, b) == IF a >= 0 THEN a % b ELSE 0 - ((0 - a) % b)

\* the updater of setCurrentMatchIndex
NewIndexNoWrap(direction, prev, length) ==
    IF direction = "NEXT" THEN JsRem(prev + 1, length)
    ELSE JsRem(prev - 1, length)

NewIndex(direction, prev, length) ==
    IF direction = "NEXT" THEN JsRem(prev + 1, length)
    ELSE JsRem(prev - 1 + length, length)

\* jsonString.split('\n')
RECURSIVE SplitLines(_)
SplitLines(text) ==
    IF \A i \in 1..Len(text) : text[i] # "\n" THEN << text >>
    ELSE LET nl == CHOOSE i \in 1..Len(text) : text[i] = "\n" /\ \A j \in 1..(i - 1) : text[j] # "\n"
         IN  << SubSeq(text, 1, nl - 1) >> \o SplitLines(SubSeq(text, nl + 1, Len(text)))

\* the <mark> elements of one line: the parts of line.split(/(term)/gi) equal to the term, case aside
MarksInLine(line, term) ==
    LET at == MatchPositions(line, term, 1)
    IN  Cardinality({ i \in 1..Len(at) :
            LowerText(SubSeq(line, at[i], at[i] + Len(term) - 1)) = LowerText(term) })

RECURSIVE MarksInLines(_, _)
MarksInLines(lines, term) ==
    IF lines = << >> THEN 0
    ELSE MarksInLine(Head(lines), term) + MarksInLines(Tail(lines), term)

\* the number of elements the render leaves in matchRefs.current
AnchorCount ==
    IF crashed \/ json = EmptyText \/ searchTerm = EmptyText THEN 0
    ELSE MarksInLines(SplitLines(json), searchTerm)

\* the render throws where it builds a RegExp from a term that is no regular expression
RenderThrows(term) == term # EmptyText /\ ~ValidRegex(term)

\* the match counter next to the buttons
CounterDisplayZeroBased ==
    LET totalMatches == IF searchTerm # EmptyText THEN MatchCount(json, searchTerm) ELSE 0
    IN  IF RenderThrows(searchTerm) THEN << SyntaxError >>
        ELSE ToStr(currentMatchIndex) \o << " / " >> \o ToStr(totalMatches)

CounterDisplay ==
    LET totalMatches == IF searchTerm # EmptyText THEN MatchCount(json, searchTerm) ELSE 0
    IN  IF RenderThrows(searchTerm) THEN << SyntaxError >>
        ELSE IF totalMatches > 0
             THEN ToStr(currentMatchIndex + 1) \o << " / " >> \o ToStr(totalMatches)
             ELSE << "0", " / ", "0" >>

\* the index left as it is by a term change
IndexAfterTermChangeKept == currentMatchIndex

\* setCurrentMatchIndex(0)
IndexAfterTermChange == 0

\* onChange of the search field, and the render that follows
setSearchTerm ==
    /\ ~crashed
    /\ \E value \in SearchTerms :
          /\ value # searchTerm
          /\ searchTerm' = value
          /\ crashed' = RenderThrows(value)
          /\ lastOp' = Op("term", Len(value))
    /\ currentMatchIndex' = IndexAfterTermChange
    /\ UNCHANGED << json, pendingScroll, scrolledTo, chatProps, chatState, resolved, scrollVars, renderVars >>

handleMatchNavigation ==
    /\ ~crashed
    /\ \E direction \in {"NEXT", "PREV"} :
          /\ lastOp' = Op(direction, currentMatchIndex)
          /\ IF json = EmptyText \/ searchTerm = EmptyText
             THEN UNCHANGED << currentMatchIndex, pendingScroll, crashed >>
             ELSE IF ~ValidRegex(searchTerm)
             THEN crashed' = TRUE /\ UNCHANGED << currentMatchIndex, pendingScroll >>
             ELSE IF MatchCount(json, searchTerm) = 0
             THEN UNCHANGED << currentMatchIndex, pendingScroll, crashed >>
             ELSE /\ Len(pendingScroll) < MaxPending
                  /\ currentMatchIndex' =
                        NewIndex(direction, currentMatchIndex, MatchCount(json, searchTerm))
                  /\ pendingScroll' = Append(pendingScroll, currentMatchIndex')
                  /\ UNCHANGED crashed
    /\ UNCHANGED << json, searchTerm, scrolledTo, chatProps, chatState, resolved, scrollVars, renderVars >>

\* the setTimeout callback of a navigation
scrollTimeout ==
    /\ pendingScroll # << >>
    /\ pendingScroll' = Tail(pendingScroll)
    /\ scrolledTo' = IF Head(pendingScroll) < AnchorCount THEN Head(pendingScroll) ELSE scrolledTo
    /\ lastOp' = Op("scroll", Head(pendingScroll))
    /\ UNCHANGED << json, searchTerm, currentMatchIndex, crashed, chatProps, chatState, resolved, scrollVars, renderVars >>

(***************************************************************************)
(* ScrollAnimator: scrollToBottom, handleScroll and the effect on          *)
(* [messages, scrollSpeed].  Offsets are pixels, times are milliseconds.   *)
(***************************************************************************)
ScrollSpeeds == {"slow", "normal", "fast", "instant", "none"}

Max(a, b) == IF a >= b THEN a ELSE b
Min(a, b) == IF a <= b THEN a ELSE b

\* Math.max(8000, ...)
MinDuration == 8000

\* { slow: 24.0, normal: 12.0, fast: 8.0, instant: 0 }[scrollSpeed] || 12.0
baseDurationPerChar(speed) ==
    LET entry == CASE speed = "slow" -> 24
                   [] speed = "normal" -> 12
                   [] speed = "fast" -> 8
                   [] OTHER -> 0
    IN  IF entry # 0 THEN entry ELSE 12

\* the floor left out
scrollDurationNoFloor(speed, length) ==
    IF speed = "instant" THEN 0 ELSE length * baseDurationPerChar(speed)

\* instant taken from the table only, where 0 falls back to 12.0
scrollDurationFromTable(speed, length) ==
    Max(MinDuration, length * baseDurationPerChar(speed))

scrollDuration(speed, length) ==
    IF speed = "instant" THEN 0 ELSE Max(MinDuration, length * baseDurationPerChar(speed))

\* the time between two frames of the model; a loop holds the time elapsed since its
\* startTime at the last frame it ran in (currentTime - startTime)
FrameMs == MinDuration + MinDuration \div 2

\* startScrollTop + distance * (1 - (1 - progress)^4), progress = min(elapsed / duration, 1);
\* the times of the model are whole seconds, d and e, which keeps the quartic in integers
expectedScrollTop(loop, elapsed) ==
    LET d == loop.scrollDuration \div 1000
        e == Min(elapsed, loop.scrollDuration) \div 1000
        r == d - e
        distance == loop.targetScrollTop - loop.startScrollTop
    IN  loop.startScrollTop + (distance * (d * d * d * d - r * r * r * r)) \div (d * d * d * d)

\* progress < 1
Unfinished(loop, elapsed) == elapsed < loop.scrollDuration

\* the userScrolledUp an animation loop reads: the constant of the render that started it
FlagSeen(loop) == loop.userScrolledUp

\* the animateScroll callbacks of one frame, in the order they were requested:
\* the offset they leave and the loops that request another frame
RECURSIVE RunFrame(_, _)
RunFrame(ls, top) ==
    IF ls = << >> THEN [top |-> top, again |-> << >>]
    ELSE LET loop == Head(ls)
             elapsed == loop.elapsed + FrameMs
             written == IF ~FlagSeen(loop) THEN expectedScrollTop(loop, elapsed) ELSE top
             rest == RunFrame(Tail(ls), written)
         IN  [top |-> rest.top,
              again |-> (IF Unfinished(loop, elapsed) /\ ~FlagSeen(loop)
                         THEN << [loop EXCEPT !.elapsed = elapsed] >> ELSE << >>)
                        \o rest.again]

\* scrollToBottom as the effect runs it after a render with the given state
scrollToBottom(speed, length, maxTop) ==
    IF speed = "none"
    THEN UNCHANGED << userScrolledUp, scrollTop, loops, scrollEventPending >>
    ELSE IF scrollDuration(speed, length) = 0
    THEN /\ scrollTop' = maxTop
         /\ scrollEventPending' = (scrollEventPending \/ scrollTop # maxTop)
         /\ userScrolledUp' = FALSE
         /\ UNCHANGED loops
    ELSE /\ loops' = Append(loops,
                        [elapsed |-> 0,
                         startScrollTop |-> scrollTop,
                         targetScrollTop |-> maxTop,
                         scrollDuration |-> scrollDuration(speed, length),
                         userScrolledUp |-> userScrolledUp])
         /\ UNCHANGED << userScrolledUp, scrollTop, scrollEventPending >>


\* the lengths of the last message and the heights of the overflow the model draws from
ResponseLengths == {0, 1000}
Heights == {0, 150}
Offsets(maxTop) == { k * 50 : k \in 0..(maxTop \div 50) }

Room2 == Len(loops) < MaxLoops

\* a conversation-state change: a new last message, the content grows, the effect runs
messagesChange ==
    /\ \E length \in ResponseLengths : \E height \in Heights :
          /\ height >= maxScrollTop
          /\ scrollSpeed \in {"slow", "normal", "fast"} => Room2
          /\ responseLength' = length
          /\ maxScrollTop' = height
          /\ lastOp' = Op("messagesChange", userScrolledUp)
          /\ scrollToBottom(scrollSpeed, length, height)
    /\ UNCHANGED << scrollSpeed, lastScrollTop >>
    /\ UNCHANGED << chatProps, chatState, resolved, searchVars, renderVars >>

\* onChange of the scroll speed Select, and the effect of the render that follows
setScrollSpeed ==
    /\ \E value \in ScrollSpeeds :
          /\ value # scrollSpeed
          /\ value \in {"slow", "normal", "fast"} => Room2
          /\ scrollSpeed' = value
          /\ lastOp' = Op("setScrollSpeed", userScrolledUp)
          /\ scrollToBottom(value, responseLength, maxScrollTop)
    /\ UNCHANGED << lastScrollTop, maxScrollTop, responseLength >>
    /\ UNCHANGED << chatProps, chatState, resolved, searchVars, renderVars >>

\* one animation frame: every requested animateScroll callback runs, FrameMs after the last
animationFrame ==
    /\ loops # << >>
    /\ LET frame == RunFrame(loops, scrollTop)
       IN  /\ scrollTop' = frame.top
           /\ loops' = frame.again
           /\ scrollEventPending' = (scrollEventPending \/ frame.top # scrollTop)
    /\ lastOp' = Op("animationFrame", "scroll")
    /\ UNCHANGED << scrollSpeed, userScrolledUp, lastScrollTop, maxScrollTop, responseLength >>
    /\ UNCHANGED << chatProps, chatState, resolved, searchVars, renderVars >>

\* currentScrollTop < maxScrollTop - 100
UpThreshold == 100

\* currentScrollTop >= maxScrollTop - 50
BottomThreshold == 50

\* the value handleScroll leaves in userScrolledUp
FlagAfterScrollInclusive(currentScrollTop, maxTop) ==
    IF currentScrollTop >= maxTop - BottomThreshold THEN FALSE
    ELSE IF currentScrollTop <= lastScrollTop /\ currentScrollTop <= maxTop - UpThreshold
    THEN TRUE
    ELSE userScrolledUp

FlagAfterScroll(currentScrollTop, maxTop) ==
    IF currentScrollTop >= maxTop - BottomThreshold THEN FALSE
    ELSE IF currentScrollTop < lastScrollTop /\ currentScrollTop < maxTop - UpThreshold
    THEN TRUE
    ELSE userScrolledUp

\* onScroll of the message container, for the scroll events the animator's writes raise
handleScroll ==
    /\ scrollEventPending
    /\ scrollEventPending' = FALSE
    /\ userScrolledUp' = FlagAfterScroll(scrollTop, maxScrollTop)
    /\ lastScrollTop' = scrollTop
    /\ lastOp' = Op("handleScroll", "scroll")
    /\ UNCHANGED << scrollSpeed, scrollTop, maxScrollTop, responseLength, loops >>
    /\ UNCHANGED << chatProps, chatState, resolved, searchVars, renderVars >>

\* the user drags the message container to another offset, and onScroll runs on the event
userScroll ==
    /\ \E offset \in Offsets(maxScrollTop) :
          /\ offset # scrollTop
          /\ scrollTop' = offset
          /\ userScrolledUp' = FlagAfterScroll(offset, maxScrollTop)
          /\ lastScrollTop' = offset
    /\ scrollEventPending' = FALSE
    /\ lastOp' = Op("userScroll", "scroll")
    /\ UNCHANGED << scrollSpeed, maxScrollTop, responseLength, loops >>
    /\ UNCHANGED << chatProps, chatState, resolved, searchVars, renderVars >>

\* the popup as mounted: the effect of the first render has requested its first frame
IdleScroll ==
    /\ scrollSpeed = "normal"
    /\ userScrolledUp = FALSE
    /\ lastScrollTop = 0
    /\ scrollTop = 0
    /\ maxScrollTop = 0
    /\ responseLength = 0
    /\ loops = << [elapsed |-> 0, startScrollTop |-> 0, targetScrollTop |-> 0,
                   scrollDuration |-> scrollDuration("normal", 0), userScrolledUp |-> FALSE] >>
    /\ scrollEventPending = FALSE

(***************************************************************************)
(* Renderers of assistant messages                                         *)
(***************************************************************************)
\* A message text is a sequence of characters; a word, the bullet character (written
\* U+2022), the object literal {} and a fence of three backticks with or without its
\* json tag (written <fence>, <fence>json, <fence>JSON) are one element each.
Words == {"a", "1", "A", "B", "2", "one", "two", "three", "ignored", "blank", "JSON"}

\* the elements of a rendered message: nothing yet, <span>, <pre>, <ul> or <table>
NothingRendered ==
    [kind |-> "none", text |-> EmptyText, items |-> << >>, header |-> << >>, rows |-> << >>]
Span(text) ==
    [kind |-> "span", text |-> text, items |-> << >>, header |-> << >>, rows |-> << >>]
Pre(text) ==
    [kind |-> "pre", text |-> text, items |-> << >>, header |-> << >>, rows |-> << >>]
Ul(items) ==
    [kind |-> "ul", text |-> EmptyText, items |-> items, header |-> << >>, rows |-> << >>]
TableElement(header, rows) ==
    [kind |-> "table", text |-> EmptyText, items |-> << >>, header |-> header, rows |-> rows]

\* String.prototype.split on a separator that is one of the characters in seps
RECURSIVE SplitAt(_, _)
SplitAt(text, seps) ==
    IF \A i \in 1..Len(text) : text[i] \notin seps THEN << text >>
    ELSE LET at == CHOOSE i \in 1..Len(text) :
                      text[i] \in seps /\ \A j \in 1..(i - 1) : text[j] \notin seps
         IN  << SubSeq(text, 1, at - 1) >> \o SplitAt(SubSeq(text, at + 1, Len(text)), seps)

\* split(/\r?\n/): a "\r" right before the "\n" belongs to the separator
SplitCrLf(text) ==
    LET parts == SplitAt(text, {"\n"})
    IN  [i \in 1..Len(parts) |->
            IF i < Len(parts) /\ parts[i] # << >> /\ parts[i][Len(parts[i])] = "\r"
            THEN SubSeq(parts[i], 1, Len(parts[i]) - 1)
            ELSE parts[i]]

TrimEach(parts) == [i \in 1..Len(parts) |-> Trim(parts[i])]

NonEmpty(text) == text # EmptyText

\* line.startsWith('-') || line.startsWith(bullet) on a non-empty line
StartsWithMarker(line) == Head(line) \in {"-", "U+2022"}

\* only marked lines kept
BulletLineKeptMarked(line) ==
    line # EmptyText /\ StartsWithMarker(line)

\* line && (line.startsWith('-') || line.startsWith(bullet) || /^[a-zA-Z0-9]/.test(line))
BulletLineKept(line) ==
    line # EmptyText /\ (StartsWithMarker(line) \/ Head(line) \in Words)

\* line.replace(/^[-bullet]\s*/, '')
StripMarker(line) ==
    IF line # EmptyText /\ StartsWithMarker(line) THEN TrimStart(Tail(line)) ELSE line

\* renderAiMessage, bullet branch
renderBulletList(text) ==
    LET lines == SelectSeq(TrimEach(SplitAt(text, {"\n", "\r"})), BulletLineKept)
    IN  Ul([i \in 1..Len(lines) |-> StripMarker(lines[i])])

\* line.trim().startsWith('|')
StartsWithPipe(line) == Trim(line) # EmptyText /\ Head(Trim(line)) = "|"

\* line.split('|').map(cell => cell.trim()).filter(Boolean)
Cells(line) == SelectSeq(TrimEach(SplitAt(line, {"|"})), NonEmpty)

\* the separator line taken as the first body row
BodyLinesWithSeparator(lines) == SubSeq(lines, 2, Len(lines))

\* lines.slice(2)
BodyLines(lines) == SubSeq(lines, 3, Len(lines))

NoTable == [found |-> FALSE, header |-> << >>, rows |-> << >>]

parseMarkdownTable(md) ==
    LET lines == SelectSeq(SplitCrLf(Trim(md)), StartsWithPipe)
    IN  IF Len(lines) < 2 THEN NoTable
        ELSE [found |-> TRUE,
              header |-> Cells(lines[1]),
              rows |-> [i \in 1..Len(BodyLines(lines)) |-> Cells(BodyLines(lines)[i])]]

renderMarkdownTable(md) ==
    LET table == parseMarkdownTable(md)
    IN  IF ~table.found THEN Span(md) ELSE TableElement(table.header, table.rows)

\* the fences /<fence>json([\s\S]*?)<fence>/i can open on, and the ones it can close on
JsonFences == {"<fence>json", "<fence>JSON"}
Fences == {"<fence>json", "<fence>JSON", "<fence>"}

\* text.match(/<fence>json([\s\S]*?)<fence>/i): the leftmost opening fence that a fence follows,
\* and the text up to the first fence after it
FenceMatch(text) ==
    LET opens == { i \in 1..Len(text) :
                     text[i] \in JsonFences /\ \E j \in (i + 1)..Len(text) : text[j] \in Fences }
    IN  IF opens = {} THEN [found |-> FALSE, group |-> EmptyText]
        ELSE LET i == CHOOSE o \in opens : \A other \in opens : o <= other
                 j == CHOOSE c \in (i + 1)..Len(text) :
                         text[c] \in Fences /\ \A b \in (i + 1)..(c - 1) : text[b] \notin Fences
             IN  [found |-> TRUE, group |-> SubSeq(text, i + 1, j - 1)]

\* text.replace(/<fence>json|<fence>/g, ''): case matters, "<fence>JSON" loses its backticks only
RECURSIVE StripFences(_)
StripFences(text) ==
    IF text = << >> THEN << >>
    ELSE (CASE Head(text) \in {"<fence>json", "<fence>"} -> << >>
            [] Head(text) = "<fence>JSON" -> << "JSON" >>
            [] OTHER -> << Head(text) >>) \o StripFences(Tail(text))

\* JSON.parse of the texts of the model: {} and the integers written with "-" and "1"
\* are JSON, with white space around them; anything else is a SyntaxError
IsJsonNumber(t) ==
    LET digits == IF t # << >> /\ Head(t) = "-" THEN Tail(t) ELSE t
    IN  digits # << >> /\ \A i \in 1..Len(digits) : digits[i] = "1"

JsonParse(t) ==
    IF Trim(t) = << "{}" >> \/ IsJsonNumber(Trim(t))
    THEN [status |-> "ok", value |-> Trim(t)]
    ELSE [status |-> SyntaxError, value |-> EmptyText]

\* JSON.stringify(json, null, 2) of an empty object or an integer
JsonStringify(value) == value

\* the catch clause showing the text without its fences
JsonFallbackStripped(text) == Pre(StripFences(text))

\* catch { return <pre>{text}</pre> }
JsonFallback(text) == Pre(text)

renderJsonBlock(text) ==
    LET match == FenceMatch(text)
        parsed == IF match.found THEN JsonParse(match.group)
                  ELSE JsonParse(StripFences(text))
    IN  IF parsed.status = "ok" THEN Pre(JsonStringify(parsed.value))
        ELSE JsonFallback(text)

\* renderAiMessage for a message of the assistant
renderAiMessageElement(style, text) ==
    CASE style = "bullet" -> renderBulletList(text)
      [] style = "table" /\ SeqIncludes(text, "|") -> renderMarkdownTable(text)
      [] style = "json" -> renderJsonBlock(text)
      [] OTHER -> Span(text)

\* the render of one assistant message under the current style; arg counts the renders
renderAiMessage ==
    /\ \E n \in 1..MaxRenders :
          /\ n = IF lastOp.name = "renderAiMessage" THEN lastOp.arg + 1 ELSE 1
          /\ lastOp' = Op("renderAiMessage", n)
    /\ rendered' = renderAiMessageElement(responseStyle, msgText)
    /\ UNCHANGED << chatProps, chatState, resolved, searchVars, scrollVars, msgText >>

IdleRender ==
    /\ msgText = EmptyText
    /\ rendered = NothingRendered

(***************************************************************************)
(* Specifications                                                          *)
(***************************************************************************)
RuleNames == << "A", "B", "C", "D" >>

\* the rule list of n rules as the application numbers it
RuleList(n) == [i \in 1..n |-> Rule(ToStr(i - 1), RuleNames[i])]

IdleChat ==
    /\ messages = InitialMessages
    /\ input = EmptyText
    /\ loading = FALSE
    /\ responseStyle = "concise"
    /\ seeAllRules = FALSE
    /\ outstanding = << >>
    /\ escaped = FALSE

IdleSearch ==
    /\ searchTerm = EmptyText
    /\ currentMatchIndex = 0
    /\ pendingScroll = << >>
    /\ scrolledTo = 0 - 1
    /\ crashed = FALSE

\* the chat popup opened on rule A or B of [A, B] with the edge 0 -> 1, or on no rule
Init ==
    /\ allRules = Array(RuleList(2))
    /\ edges = Array(<< Edge(<< "0" >>, << "1" >>) >>)
    /\ rule \in { NoRule, RuleList(2)[1], RuleList(2)[2] }
    /\ isAIPage = (rule = NoRule)
    /\ IdleChat
    /\ resolved = Relationships
    /\ json = EmptyText
    /\ IdleSearch
    /\ IdleScroll
    /\ IdleRender
    /\ lastOp = Op("init", "chat")

Next ==
    \/ KeyDownEnter
    \/ ClickSend
    \/ CompletionReturns
    \/ CompletionFails
    \/ handleStyleChange
    \/ setInput
    \/ setSeeAllRules

Spec == Init /\ [][Next]_vars

\* the chat popup opened on rule B or on no rule, with the rule list [A, B] or without one
InitContext ==
    /\ allRules \in { Array(RuleList(2)), Absent("undefined") }
    /\ edges = Array(<< Edge(<< "0" >>, << "1" >>) >>)
    /\ rule \in { NoRule, RuleList(2)[2] }
    /\ isAIPage = (rule = NoRule)
    /\ IdleChat
    /\ resolved = Relationships
    /\ json = EmptyText
    /\ IdleSearch
    /\ IdleScroll
    /\ IdleRender
    /\ lastOp = Op("init", "context")

SpecContext == InitContext /\ [][Next]_vars

\* the chat popup opened on rule B; the completion service answers or fails in the end,
\* so the continuation of an outstanding sendMessage is run sooner or later
InitLive ==
    /\ Init
    /\ rule = RuleList(2)[2]

SpecLive == InitLive /\ [][Next]_vars /\ WF_vars(CompletionReturns \/ CompletionFails)

\* the props the surrounding page can pass to the resolver
RuleChoices ==
    { NoRule, Rule(EmptyText, "A") } \cup { RuleList(MaxRules)[i] : i \in 1..MaxRules }

RuleListChoices ==
    { Absent("undefined"), Absent("null") } \cup { Array(RuleList(n)) : n \in 0..MaxRules }

Positions == { ToStr(i) : i \in 0..MaxRules }

EdgeChoices == { Edge(s, t) : s \in Positions, t \in Positions }

RECURSIVE EdgeListsUpTo(_)
EdgeListsUpTo(n) ==
    IF n = 0 THEN { << >> }
    ELSE LET shorter == EdgeListsUpTo(n - 1)
         IN  shorter \cup { Append(l, e) : l \in shorter, e \in EdgeChoices }

EdgesChoices ==
    { Absent("undefined"), Absent("null") } \cup { Array(l) : l \in EdgeListsUpTo(MaxEdges) }

InitResolver ==
    /\ rule \in RuleChoices
    /\ allRules \in RuleListChoices
    /\ edges \in EdgesChoices
    /\ isAIPage = FALSE
    /\ IdleChat
    /\ resolved = NotRendered
    /\ json = EmptyText
    /\ IdleSearch
    /\ IdleScroll
    /\ IdleRender
    /\ lastOp = Op("init", "resolver")

\* the render of RuleChatPopup down to childNames
renderRelationships ==
    /\ resolved = NotRendered
    /\ resolved' = Relationships
    /\ lastOp' = Op("render", "relationships")
    /\ UNCHANGED << chatProps, chatState, searchVars, scrollVars, renderVars >>

NextResolver == renderRelationships

SpecResolver == InitResolver /\ [][NextResolver]_vars

InitSearch ==
    /\ rule = NoRule
    /\ allRules = Array(<< >>)
    /\ edges = Array(<< >>)
    /\ isAIPage = FALSE
    /\ IdleChat
    /\ resolved = NotRendered
    /\ json \in JsonTexts
    /\ IdleSearch
    /\ IdleScroll
    /\ IdleRender
    /\ lastOp = Op("init", "search")

NextSearch ==
    \/ setSearchTerm
    \/ handleMatchNavigation
    \/ scrollTimeout

SpecSearch == InitSearch /\ [][NextSearch]_vars

InitScroll ==
    /\ rule = NoRule
    /\ allRules = Array(<< >>)
    /\ edges = Array(<< >>)
    /\ isAIPage = FALSE
    /\ IdleChat
    /\ resolved = NotRendered
    /\ json = EmptyText
    /\ IdleSearch
    /\ IdleScroll
    /\ IdleRender
    /\ lastOp = Op("init", "scroll")

NextScroll ==
    \/ messagesChange
    \/ setScrollSpeed
    \/ animationFrame
    \/ userScroll
    \/ handleScroll

SpecScroll == InitScroll /\ [][NextScroll]_vars

\* the characters the texts of assistant messages are drawn from
RenderChars == {"-", " ", "\n", "\r", "|", "a", "1", "{}", "<fence>json", "<fence>JSON", "<fence>"}

BulletExample ==
    << "-", " ", "one", "\n", "-", " ", "two", "\n", "ignored", " ", "blank", "\n", "\n",
       "-", " ", "three" >>

TableExample ==
    << "|", " ", "A", " ", "|", " ", "B", " ", "|", "\n",
       "|", "-", "-", "-", "|", "-", "-", "-", "|", "\n",
       "|", " ", "1", " ", "|", " ", "2", " ", "|" >>

FencedExample == << "a", "\n", "<fence>json", "\n", " ", "-", "1", "1", "\n", "<fence>", "\n", "a" >>

\* a table between other lines, with a "\r\n" line end, empty cells and a short last row
TableAmongLines ==
    << "a", "\n", "|", "A", "|", "\r", "\n", "a", "\n", " ", "|", "-", "\n",
       "|", "1", "|", "|", "a", " ", "\n", "|", "2" >>

MessageTexts ==
    TextsUpTo(RenderChars, MaxTextLen)
      \cup { BulletExample, TableExample, TableAmongLines, FencedExample }

RenderedStyles == {"bullet", "table", "json"}

InitRender ==
    /\ rule = NoRule
    /\ allRules = Array(<< >>)
    /\ edges = Array(<< >>)
    /\ isAIPage = FALSE
    /\ messages = InitialMessages
    /\ input = EmptyText
    /\ loading = FALSE
    /\ responseStyle \in RenderedStyles
    /\ seeAllRules = FALSE
    /\ outstanding = << >>
    /\ escaped = FALSE
    /\ resolved = NotRendered
    /\ json = EmptyText
    /\ IdleSearch
    /\ IdleScroll
    /\ msgText \in MessageTexts
    /\ rendered = NothingRendered
    /\ lastOp = Op("init", 0)

NextRender == renderAiMessage

SpecRender == InitRender /\ [][NextRender]_vars


(***************************************************************************)
(* Properties of the conversation (specification Spec)                     *)
(***************************************************************************)
SendAttempts == {"send", "send_thrown", "send_noop", "send_rejected"}

Greetings == { GreetingRule, GreetingGeneral }

IsGreeting(m) == m.sender = "ai" /\ m.text \in Greetings

\* C1: at most one completion request is outstanding, loading is true while it is, and a
\* send attempt made while loading (Enter key or Send button) appends no message and
\* issues no request; nothing is kept for later (the input stays as it is).
C1_SingleInFlight ==
    /\ [](Len(outstanding) <= 1 /\ (outstanding # << >> => loading))
    /\ [][ (loading /\ lastOp'.name \in SendAttempts)
             => /\ lastOp'.name = "send_rejected"
                /\ messages' = messages
                /\ outstanding' = outstanding
                /\ input' = input ]_vars

C1_Witness ==
    /\ lastOp.name = "send_rejected"
    /\ loading
    /\ Len(outstanding) = 1

\* C2: when the completion call of an accepted send fails, the failure stays inside
\* sendMessage, exactly one apology is appended and it follows the user's message of that
\* send, no request is left or reissued, loading is false and a further send is accepted.
C2_FailureHandled ==
    [][ lastOp'.name = "failure"
          => \E i \in 1..Len(outstanding) :
                /\ outstanding' = RemoveAt(outstanding, i)
                /\ ~escaped'
                /\ messages' = Append(messages, Message("ai", Apology))
                /\ messages[Len(messages)] = Message("user", outstanding[i].text)
                /\ ~loading'
                /\ EnterAccepted' ]_vars

\* C3 as claimed: the history of an accepted send is the system instruction, the rule JSON,
\* every message m1..mk of the conversation at send time role-mapped in order, and the new
\* user message, k + 3 entries.
SentHistory == outstanding[Len(outstanding)].history
MessagesAtSend == SubSeq(messages, 1, Len(messages) - 1)
SentText == messages[Len(messages)].text

HistoryFrame(h) ==
    /\ Len(h) >= 3
    /\ h[1].role = "system"
    /\ h[2].role = "user" /\ h[2].content[1] = "Rule JSON: "
    /\ h[Len(h)] = Entry("user", SentText)

MappedInOrder(h, ms) ==
    /\ Len(h) = Len(ms) + 3
    /\ \A i \in 1..Len(ms) :
          h[i + 2] = Entry(IF ms[i].sender = "user" THEN "user" ELSE "assistant", ms[i].text)

C3_HistoryAllMessages ==
    lastOp.name = "send"
      => /\ HistoryFrame(SentHistory)
         /\ MappedInOrder(SentHistory, MessagesAtSend)

\* C3 amended: as C3, except that an assistant message whose text equals the system
\* instruction of the request is left out of the history; the history has k + 3 entries
\* less the number of such messages.
C3_HistoryExceptEcho ==
    lastOp.name = "send"
      => /\ HistoryFrame(SentHistory)
         /\ MappedInOrder(SentHistory,
               SelectSeq(MessagesAtSend,
                         LAMBDA m : ~(m.sender = "ai" /\ m.text = SentHistory[1].content)))

C3_Witness ==
    /\ lastOp.name = "send"
    /\ Len(MessagesAtSend) = 3
    /\ Len(SentHistory) = 6
    /\ SentHistory[3].role = "assistant"
    /\ SentHistory[4].role = "user"
    /\ SentHistory[5].role = "assistant"

\* C4: right after a style change the style is the selected one, the conversation is
\* exactly one assistant greeting and the input is empty.
C4_StyleChangeResets ==
    lastOp.name = "style"
      => /\ responseStyle = lastOp.arg
         /\ Len(messages) = 1
         /\ IsGreeting(messages[1])
         /\ input = EmptyText

C4_Witness ==
    /\ lastOp.name = "style"
    /\ responseStyle = "json"
    /\ loading
    /\ outstanding # << >>
    /\ Len(outstanding[1].history) = 6

\* C5: the conversation is never empty and starts with an assistant greeting.
C5_GreetingFirst ==
    /\ messages # << >>
    /\ IsGreeting(messages[1])

C5_Witness ==
    /\ Len(messages) >= 4
    /\ responseStyle # "concise"
    /\ lastOp.name = "failure"

(***************************************************************************)
(* Properties of the relationship resolver (specification SpecResolver)    *)
(***************************************************************************)
\* the focused rule is the rule at position i (0-based) of the rule list
FocusedAt(i) ==
    /\ allRules.kind = "array"
    /\ i < Len(allRules.items)
    /\ rule = allRules.items[i + 1]
    /\ rule.id = ToStr(i)

\* the names of the rules at the positions in S, in list order, comma-joined, or "None"
NamesAt(S) ==
    LET at == SelectSeq(Indices(allRules.items), LAMBDA j : j \in S)
    IN  IF at = << >> THEN << "None" >>
        ELSE JoinComma([k \in 1..Len(at) |-> allRules.items[at[k] + 1].Name])

SourcesInto(i) ==
    { j \in 0..(Len(allRules.items) - 1) :
        \E k \in 1..Len(edges.items) :
            edges.items[k].source = ToStr(j) /\ edges.items[k].target = ToStr(i) }

TargetsFrom(i) ==
    { j \in 0..(Len(allRules.items) - 1) :
        \E k \in 1..Len(edges.items) :
            edges.items[k].target = ToStr(j) /\ edges.items[k].source = ToStr(i) }

\* C6: for the focused rule at position i the parents are the names of the rules at the
\* positions that are source of an edge into i, the children those at the positions that
\* are target of an edge out of i, comma-joined, "None" when there are none; with rules
\* [A, B] and the edge 0 -> 1, rule 1 has parents "A" and children "None", rule 0 has
\* parents "None" and children "B".
C6_ParentsAndChildren ==
    (resolved # NotRendered /\ edges.kind = "array")
      => \A i \in 0..MaxRules :
            FocusedAt(i)
              => /\ resolved.status = "ok"
                 /\ resolved.parentNames = NamesAt(SourcesInto(i))
                 /\ resolved.childNames = NamesAt(TargetsFrom(i))
                 /\ (/\ Len(allRules.items) = 2
                     /\ edges.items = << Edge(<< "0" >>, << "1" >>) >>)
                       => /\ i = 1 => /\ resolved.parentNames = << "A" >>
                                      /\ resolved.childNames = << "None" >>
                          /\ i = 0 => /\ resolved.parentNames = << "None" >>
                                      /\ resolved.childNames = << "B" >>

C6_Witness ==
    /\ resolved.status = "ok"
    /\ FocusedAt(1)
    /\ Len(allRules.items) = 2
    /\ edges = Array(<< Edge(<< "0" >>, << "1" >>) >>)
    /\ resolved.parentNames = << "A" >>
    /\ resolved.childNames = << "None" >>

\* C7: with the focused rule absent or without identifier, the rule list absent or empty,
\* or the edge list absent (undefined or null) or empty, the resolver does not throw and
\* both results are "None".
InputMissing ==
    \/ rule.kind = "null"
    \/ rule.id = EmptyText
    \/ allRules.kind # "array"
    \/ allRules.items = << >>
    \/ edges.kind # "array"
    \/ edges.items = << >>

C7_NoneOnMissingInput ==
    (resolved # NotRendered /\ InputMissing)
      => /\ resolved.status = "ok"
         /\ resolved.parentNames = << "None" >>
         /\ resolved.childNames = << "None" >>

(***************************************************************************)
(* Properties of the search navigator (specification SpecSearch)           *)
(***************************************************************************)
Navigations == {"NEXT", "PREV"}

\* the number of matches of the current term in the raw text
N == MatchCount(json, searchTerm)

Searching == ~crashed /\ searchTerm # EmptyText /\ N > 0

RECURSIVE Repeat(_, _, _)
Repeat(direction, times, index) ==
    IF times = 0 THEN index
    ELSE Repeat(direction, times - 1, NewIndex(direction, index, N))

\* C8: with N > 0 matches NEXT takes index i to (i + 1) mod N and PREV takes it to
\* (i - 1 + N) mod N; N times NEXT from any index returns to it, PREV from 0 gives N - 1.
C8_WrapAround ==
    /\ [](Searching => /\ \A i \in 0..(N - 1) : Repeat("NEXT", N, i) = i
                       /\ NewIndex("PREV", 0, N) = N - 1)
    /\ [][ (Searching /\ lastOp'.name \in Navigations)
             => /\ lastOp'.name = "NEXT" => currentMatchIndex' = (currentMatchIndex + 1) % N
                /\ lastOp'.name = "PREV" => currentMatchIndex' = (currentMatchIndex + N - 1) % N
                /\ lastOp'.name = "PREV" /\ currentMatchIndex = 0 => currentMatchIndex' = N - 1
          ]_vars

C8_Witness ==
    /\ Searching
    /\ N = 3
    /\ lastOp = Op("PREV", 0)
    /\ currentMatchIndex = 2

\* C9: with an empty term or a term without match NEXT and PREV leave the current index
\* as it is and schedule no scroll, and the counter shows "0 / 0"; with matches it shows
\* "<current index + 1> / <match count>".
C9_NoMatchNoOp ==
    /\ [](~crashed => CounterDisplay =
             IF searchTerm = EmptyText \/ N = 0 THEN << "0", " / ", "0" >>
             ELSE ToStr(currentMatchIndex + 1) \o << " / " >> \o ToStr(N))
    /\ [][ (~crashed /\ lastOp'.name \in Navigations /\ (searchTerm = EmptyText \/ N = 0))
             => /\ currentMatchIndex' = currentMatchIndex
                /\ pendingScroll' = pendingScroll
                /\ scrolledTo' = scrolledTo ]_vars

C9_Witness ==
    /\ ~crashed
    /\ lastOp.name \in Navigations
    /\ searchTerm # EmptyText
    /\ json # EmptyText
    /\ N = 0
    /\ CounterDisplay = << "0", " / ", "0" >>

\* C10: a search term that is empty or not a regular expression raises no error in the
\* render or in NEXT/PREV and counts as zero matches: the counter shows "0 / 0".
C10_InvalidTermNoCrash ==
    (searchTerm = EmptyText \/ ~ValidRegex(searchTerm))
      => /\ ~crashed
         /\ CounterDisplay = << "0", " / ", "0" >>

\* ---------------------------------------------------------------------------------
\* Claims on the scroll animator (SpecScroll)
\* ---------------------------------------------------------------------------------

Effects == {"messagesChange", "setScrollSpeed"}
Animated == {"slow", "normal", "fast"}

\* the per-character constant the profile table is said to hold
C11_PerChar(speed) ==
    CASE speed = "slow" -> 24 [] speed = "normal" -> 12 [] speed = "fast" -> 8

\* response lengths on both sides of the point where each profile leaves the floor
C11_Lengths == {0, 1, 333, 334, 666, 667, 1000, 1001, 2000}

C11_Table ==
    \A length \in C11_Lengths :
       /\ \A speed \in ScrollSpeeds \ {"none"} :
             scrollDuration(speed, length) = 0 <=> speed = "instant"
       /\ \A speed \in Animated :
             /\ scrollDuration(speed, length) = Max(8000, length * C11_PerChar(speed))
             /\ scrollDuration(speed, length) >= 8000
             /\ \A longer \in C11_Lengths :
                   length <= longer =>
                      scrollDuration(speed, length) <= scrollDuration(speed, longer)

C12_FlagStopsAnimation ==
    [][ (userScrolledUp /\ lastOp'.name = "animationFrame")
          => /\ scrollTop' = scrollTop
             /\ loops' = << >> ]_vars

\* C18: at most one scroll animation loop is active at any time: an effect that runs
\* while an earlier loop is scheduled leaves no earlier loop scheduled.
C18_SingleLoop ==
    Len(loops) <= 1

\* C19: on a scroll event with new offset c, previous observed offset p and maximum
\* offset M the override flag is set iff c < p and c < M - 100, cleared iff c >= M - 50 and
\* left unchanged in every other case, and the last observed offset becomes c.
C19_OverrideDetection ==
    [][ lastOp'.name \in {"userScroll", "handleScroll"} =>
          LET c == scrollTop'
              p == lastScrollTop
              M == maxScrollTop
          IN  /\ (c < p /\ c < M - 100) => userScrolledUp' = TRUE
              /\ c >= M - 50 => userScrolledUp' = FALSE
              /\ (~(c < p /\ c < M - 100) /\ ~(c >= M - 50))
                    => userScrolledUp' = userScrolledUp
              /\ lastScrollTop' = c ]_vars

C19_Witness ==
    /\ lastOp.name = "userScroll"
    /\ maxScrollTop = 150
    /\ scrollTop = 0
    /\ lastScrollTop = 0
    /\ userScrolledUp

\* C20: with the instant profile every conversation-state or profile change puts the
\* scroll position at the bottom and clears the user-override flag, even if the flag was
\* set; with the none profile it changes neither the scroll position nor the flag and
\* starts no loop.
C20_InstantAndNone ==
    [][ lastOp'.name \in Effects =>
          /\ scrollSpeed' = "instant" =>
                /\ scrollTop' = maxScrollTop'
                /\ userScrolledUp' = FALSE
          /\ scrollSpeed' = "none" =>
                /\ scrollTop' = scrollTop
                /\ userScrolledUp' = userScrolledUp
                /\ loops' = loops ]_vars

C20_Witness ==
    /\ lastOp = Op("setScrollSpeed", TRUE)
    /\ scrollSpeed = "instant"
    /\ maxScrollTop = 150
    /\ scrollTop = 150
    /\ ~userScrolledUp

\* ---------------------------------------------------------------------------------
\* Claims on the forwarded history (Spec) and on the resolver's order (SpecResolver)
\* ---------------------------------------------------------------------------------

\* message m of the conversation appears in history h with its role
AppearsIn(m, h) ==
    \E j \in 3..(Len(h) - 1) : h[j] = Entry(IF m.sender = "user" THEN "user" ELSE "assistant", m.text)

\* C16 as claimed: for every accepted send every message of the conversation at send
\* time, the first greeting (as role assistant) included, appears in the outbound history.
C16_AllMessagesForwarded ==
    lastOp.name = "send"
      => /\ IsGreeting(MessagesAtSend[1])
         /\ SentHistory[3] = Entry("assistant", MessagesAtSend[1].text)
         /\ \A i \in 1..Len(MessagesAtSend) : AppearsIn(MessagesAtSend[i], SentHistory)

\* C16 amended: for every accepted send the first greeting is the third entry of the
\* outbound history, as role assistant, and every message of the conversation at send
\* time appears in the history except assistant messages whose text equals the system
\* instruction of the request, which do not appear as assistant entries.
C16_GreetingForwarded ==
    lastOp.name = "send"
      => /\ IsGreeting(MessagesAtSend[1])
         /\ SentHistory[3] = Entry("assistant", MessagesAtSend[1].text)
         /\ \A i \in 1..Len(MessagesAtSend) :
               LET m == MessagesAtSend[i]
               IN  AppearsIn(m, SentHistory)
                     <=> ~(m.sender = "ai" /\ m.text = SentHistory[1].content)

C16_Witness ==
    /\ lastOp.name = "send"
    /\ Len(MessagesAtSend) = 3
    /\ MessagesAtSend[3].sender = "ai"
    /\ MessagesAtSend[3].text = SentHistory[1].content
    /\ Len(SentHistory) = 5
    /\ SentHistory[3] = Entry("assistant", MessagesAtSend[1].text)

\* the positions of the rule list, as the edges name them
KnownPosition(id) == \E j \in 0..(Len(allRules.items) - 1) : ToStr(j) = id

\* the names of the rules the ids name, one per id, in the order of the ids
NamesInOrderOf(ids) ==
    LET known == SelectSeq(ids, KnownPosition)
        names == [k \in 1..Len(known) |-> allRules.items[ParseInt(known[k]) + 1].Name]
    IN  IF names = << >> THEN << "None" >> ELSE JoinComma(names)

SourceIdsInto(i) ==
    LET into == SelectSeq(edges.items, LAMBDA e : e.target = ToStr(i))
    IN  [k \in 1..Len(into) |-> into[k].source]

TargetIdsFrom(i) ==
    LET from == SelectSeq(edges.items, LAMBDA e : e.source = ToStr(i))
    IN  [k \in 1..Len(from) |-> from[k].target]

\* C17 as claimed: the parent and child name lists follow edge-list order and keep
\* duplicates: a parent that k edges connect to the focused rule appears k times.
C17_EdgeOrderWithDuplicates ==
    (resolved # NotRendered /\ edges.kind = "array")
      => \A i \in 0..MaxRules :
            FocusedAt(i)
              => /\ resolved.parentNames = NamesInOrderOf(SourceIdsInto(i))
                 /\ resolved.childNames = NamesInOrderOf(TargetIdsFrom(i))

\* how often a name occurs in a comma-joined list, and where it occurs first
Occurrences(name, joined) == Cardinality({ k \in 1..Len(joined) : joined[k] = name })
FirstAt(name, joined) == CHOOSE k \in 1..Len(joined) : joined[k] = name /\ \A l \in 1..(k - 1) : joined[l] # name

\* the names in a list follow the order of the rule list, each at most once, and are
\* exactly the names of the rules at the positions in S
RuleListOrder(joined, S) ==
    /\ \A j \in 0..(Len(allRules.items) - 1) :
          Occurrences(allRules.items[j + 1].Name, joined) = IF j \in S THEN 1 ELSE 0
    /\ \A j1, j2 \in S :
          j1 < j2 => FirstAt(allRules.items[j1 + 1].Name, joined)
                       < FirstAt(allRules.items[j2 + 1].Name, joined)
    /\ S = {} <=> joined = << "None" >>

\* C17 amended: the parent and child name lists follow rule-list order and hold each
\* rule once: a parent that k >= 1 edges connect to the focused rule appears once, and
\* names appear in the order of their rules in the rule list, whatever the order of the
\* edges.
C17_RuleListOrderOnce ==
    (resolved # NotRendered /\ edges.kind = "array")
      => \A i \in 0..MaxRules :
            FocusedAt(i)
              => /\ RuleListOrder(resolved.parentNames, SourcesInto(i))
                 /\ RuleListOrder(resolved.childNames, TargetsFrom(i))

C17_Witness ==
    /\ resolved.status = "ok"
    /\ FocusedAt(0)
    /\ Len(allRules.items) = 2
    /\ edges = Array(<< Edge(<< "1" >>, << "0" >>), Edge(<< "0" >>, << "0" >>) >>)
    /\ resolved.parentNames = << "A", ", ", "B" >>
    /\ resolved.childNames = << "A" >>

\* ---------------------------------------------------------------------------------
\* Claims on the renderers (SpecRender)
\* ---------------------------------------------------------------------------------

RenderedAs(style) == lastOp.name = "renderAiMessage" /\ responseStyle = style

\* the lines of a text that are left after trimming and do not start with something that
\* is neither a bullet marker nor a letter or digit
ItemLines(text) ==
    { i \in 1..Len(SplitAt(text, {"\n", "\r"})) :
        LET line == Trim(SplitAt(text, {"\n", "\r"})[i])
        IN  line # EmptyText /\ Head(line) \in {"-", "U+2022"} \cup Words }

\* C13 as claimed: bullet rendering of "- one", "- two", "ignored blank", "", "- three"
\* yields exactly the 3 items "one", "two", "three".
C13_ThreeItems ==
    (RenderedAs("bullet") /\ msgText = BulletExample)
      => rendered = Ul(<< << "one" >>, << "two" >>, << "three" >> >>)

\* C13 amended: bullet rendering of "- one", "- two", "ignored blank", "", "- three"
\* yields exactly 4 items, "one", "two", "ignored blank", "three", in that order with
\* leading markers stripped: the line "ignored blank" begins with a letter and is kept as
\* it is, and only the blank line produces no item. In general there is one item per line
\* that after trimming begins with a marker, a letter or a digit.
C13_FourItems ==
    RenderedAs("bullet")
      => /\ rendered.kind = "ul"
         /\ Len(rendered.items) = Cardinality(ItemLines(msgText))
         /\ msgText = BulletExample
              => rendered.items = << << "one" >>, << "two" >>,
                                     << "ignored", " ", "blank" >>, << "three" >> >>

C13_Witness ==
    /\ RenderedAs("bullet")
    /\ msgText = BulletExample
    /\ Len(rendered.items) = 4
    /\ rendered.items[3] = << "ignored", " ", "blank" >>

\* the positions of character c in a line, between 0 and the position after the end
Bars(line, c) ==
    << 0 >> \o SelectSeq([i \in 1..Len(line) |-> i], LAMBDA i : line[i] = c) \o << Len(line) + 1 >>

\* the pieces of a line between two neighbouring occurrences of c
Pieces(line, c) ==
    [k \in 1..(Len(Bars(line, c)) - 1) |->
        SubSeq(line, Bars(line, c)[k] + 1, Bars(line, c)[k + 1] - 1)]

\* the non-empty trimmed "|"-separated cells of a line
TrimmedCells(line) ==
    SelectSeq([k \in 1..Len(Pieces(line, "|")) |-> Trim(Pieces(line, "|")[k])],
              LAMBDA cell : cell # EmptyText)

\* L1..Ln: the lines of a text that begin with "|" after trimming
PipeLines(text) ==
    SelectSeq(Pieces(text, "\n"),
              LAMBDA line : Trim(line) # EmptyText /\ Trim(line)[1] = "|")

\* C14: with L1..Ln the lines of the text that begin with "|" after trimming, table
\* rendering shows the raw text if n < 2, and otherwise a table whose header is the
\* non-empty trimmed "|"-separated cells of L1 and whose body rows are those of L3..Ln in
\* order, L2 being skipped; "| A | B |", "|---|---|", "| 1 | 2 |" gives header ["A","B"] and
\* rows [["1","2"]].
C14_TableParsing ==
    RenderedAs("table")
      => LET L == PipeLines(msgText)
         IN  /\ Len(L) < 2 => rendered = Span(msgText)
             /\ Len(L) >= 2 =>
                   /\ rendered.kind = "table"
                   /\ rendered.header = TrimmedCells(L[1])
                   /\ rendered.rows = [k \in 1..(Len(L) - 2) |-> TrimmedCells(L[k + 2])]
             /\ msgText = TableExample =>
                   /\ rendered.header = << << "A" >>, << "B" >> >>
                   /\ rendered.rows = << << << "1" >>, << "2" >> >> >>

C14_Witness ==
    /\ RenderedAs("table")
    /\ msgText = TableExample
    /\ rendered.kind = "table"
    /\ rendered.header = << << "A" >>, << "B" >> >>
    /\ Len(rendered.rows) = 1

\* the fence-stripped content of a text parses as JSON
ContentIsJson(text) ==
    JsonParse(IF FenceMatch(text).found THEN FenceMatch(text).group
              ELSE StripFences(text)).status = "ok"

\* C15: JSON rendering never throws and always yields a preformatted element: for a text
\* whose fence-stripped content is not JSON the element holds the unmodified text, and
\* rendering the same text again yields the same element.
C15_JsonFallback ==
    /\ [](RenderedAs("json") =>
             /\ rendered.kind = "pre"
             /\ ~ContentIsJson(msgText) => rendered = Pre(msgText))
    /\ [][ (RenderedAs("json") /\ lastOp'.name = "renderAiMessage" /\ ~ContentIsJson(msgText))
             => rendered' = Pre(msgText) ]_vars

C15_Witness ==
    /\ lastOp = Op("renderAiMessage", 2)
    /\ responseStyle = "json"
    /\ msgText = << "<fence>json", "a", "<fence>" >>
    /\ rendered = Pre(msgText)

\* ---------------------------------------------------------------------------------
\* Claims C21..C27
\* ---------------------------------------------------------------------------------

\* the loops whose elapsed time reaches their duration in the next frame (progress = 1)
Ending == { i \in 1..Len(loops) : loops[i].elapsed + FrameMs >= loops[i].scrollDuration }

\* C21: every started animation loop stops requesting frames no later than the first
\* frame whose elapsed time reaches its duration, and after that frame, if the override
\* flag is not set (neither as the loop reads it nor in the state), the scroll offset is
\* the target offset computed when the loop started.
C21_LoopEndsAtTarget ==
    [][ lastOp'.name = "animationFrame" =>
          /\ Len(loops') <= Len(loops) - Cardinality(Ending)
          /\ \A i \in Ending :
                (~userScrolledUp /\ ~loops[i].userScrolledUp)
                  => scrollTop' = loops[i].targetScrollTop ]_vars

\* C22: with a non-empty term whose displayed match count is N > 0 the render leaves one
\* scroll anchor per match, N anchors, and the scroll scheduled by NEXT or PREV to index
\* k brings the anchor of match k into view.
C22_AnchorPerMatch ==
    Searching
      => /\ AnchorCount = N
         /\ lastOp.name = "scroll" => scrolledTo = lastOp.arg

\* the names of the rule objects in a stringified list, in order
NamesIn(content) ==
    LET at == SelectSeq([i \in 1..Len(content) |-> i], LAMBDA i : content[i] = ",Name:")
    IN  [k \in 1..Len(at) |-> content[at[k] + 1]]

\* the elements of a stringified list: rule objects and nulls
ElementsIn(content) ==
    Cardinality({ i \in 1..Len(content) : content[i] \in {"{id:", "null"} })

RuleJson == SentHistory[2].content

ListNames == [i \in 1..Len(allRules.items) |-> allRules.items[i].Name]

HoldsRuleList == NamesIn(RuleJson) = ListNames /\ ElementsIn(RuleJson) = Len(ListNames)

HoldsFocusedRule ==
    /\ ElementsIn(RuleJson) = 1
    /\ NamesIn(RuleJson) = IF rule.kind = "object" THEN << rule.Name >> ELSE << >>

\* C23 as claimed: the rule-JSON message of an accepted send holds the entire rule list
\* whenever seeAllRules is set at send time, and only the focused rule whenever it is not.
C23_ListIffFlag ==
    lastOp.name = "send"
      => /\ RuleJson[1] = "Rule JSON: "
         /\ seeAllRules => HoldsRuleList
         /\ ~seeAllRules => HoldsFocusedRule

\* C23 amended: the rule-JSON message of an accepted send holds the entire rule list
\* whenever seeAllRules is set at send time and the rule list is an array; whenever the
\* flag is not set or the rule list is not an array it holds one element only, the
\* focused rule (null when no rule is focused).
C23_ListIffFlagAndArray ==
    lastOp.name = "send"
      => /\ RuleJson[1] = "Rule JSON: "
         /\ (seeAllRules /\ allRules.kind = "array") => HoldsRuleList
         /\ ~(seeAllRules /\ allRules.kind = "array") => HoldsFocusedRule

C23_Witness ==
    /\ lastOp.name = "send"
    /\ seeAllRules
    /\ allRules = Absent("undefined")
    /\ rule = RuleList(2)[2]
    /\ NamesIn(RuleJson) = << "B" >>

\* C24: whatever the interleaving of sends, completions, failures and style changes,
\* every assistant message other than the first greeting comes right after a user
\* message; a reply to a request sent before a style change is not appended to the
\* conversation the style change has reset.
C24_ReplyFollowsItsQuestion ==
    \A i \in 2..Len(messages) :
       messages[i].sender = "ai" => messages[i - 1].sender = "user"

Completions == {"reply", "failure"}

\* C25: loading is true exactly while a completion request is outstanding; the
\* continuation of a send appends exactly one assistant message, the reply or the
\* apology, and leaves loading false; and if the completion service returns or fails in
\* the end, every accepted send is followed by such a state.
C25_LoadingUntilAnswered ==
    /\ [](loading <=> outstanding # << >>)
    /\ [][ lastOp'.name \in Completions
             => /\ outstanding # << >> /\ outstanding' = << >>
                /\ ~loading'
                /\ Len(messages') = Len(messages) + 1
                /\ messages'[Len(messages')].sender = "ai"
                /\ SubSeq(messages', 1, Len(messages)) = messages ]_vars
    /\ (lastOp.name = "send") ~> (~loading /\ lastOp.name \in Completions)

C25_Witness ==
    /\ lastOp.name = "failure"
    /\ ~loading
    /\ Len(messages) = 5
    /\ messages[5] = Message("ai", Apology)
    /\ messages[4].sender = "user"

\* C26: a send attempted with empty or whitespace-only input changes neither the message
\* list nor the loading flag nor the input and issues no request; an accepted send
\* appends the user message with the untrimmed input text right after the messages there
\* are, nothing else when its request is issued, and clears the input.
C26_SendFrame ==
    [][ /\ (lastOp'.name \in SendAttempts /\ Trim(input) = EmptyText)
             => /\ lastOp'.name \in {"send_noop", "send_rejected"}
                /\ UNCHANGED << messages, loading, input, outstanding >>
        /\ lastOp'.name \in {"send", "send_thrown"}
             => /\ Trim(input) # EmptyText
                /\ Len(messages') > Len(messages)
                /\ SubSeq(messages', 1, Len(messages)) = messages
                /\ messages'[Len(messages) + 1] = [sender |-> "user", text |-> input]
                /\ input' = EmptyText
        /\ lastOp'.name = "send"
             => /\ Len(messages') = Len(messages) + 1
                /\ Len(outstanding') = Len(outstanding) + 1 ]_vars

C26_Witness ==
    /\ lastOp.name = "send"
    /\ messages[Len(messages)] = [sender |-> "user", text |-> << "a", " " >>]
    /\ input = EmptyText
    /\ loading

\* the match count of the current term; an empty term has none
TermMatches == IF searchTerm = EmptyText THEN 0 ELSE N

\* C27: for a fixed raw text the current match index is 0 right after every term change
\* and always satisfies 0 <= index < max(1, match count of the current term), so the
\* 1-based position the counter shows never exceeds the count it shows.
C27_IndexInRange ==
    /\ [](/\ 0 <= currentMatchIndex
          /\ currentMatchIndex < Max(1, TermMatches)
          /\ (~crashed /\ TermMatches > 0)
                => /\ currentMatchIndex + 1 <= TermMatches
                   /\ CounterDisplay =
                         ToStr(currentMatchIndex + 1) \o << " / " >> \o ToStr(TermMatches))
    /\ [][ lastOp'.name = "term" => currentMatchIndex' = 0 ]_vars

C27_Witness ==
    /\ lastOp.name = "term"
    /\ currentMatchIndex = 0
    /\ TermMatches = 2
    /\ scrolledTo = 2

====
